---- MODULE Spec2Model ----
(***************************************************************************)
(* Model of app.py: a currency converter for USD, EUR and GBP that bridges *)
(* through the BTC price of each currency, with an in-memory cache of the  *)
(* flat rate table and a time-to-live.                                     *)
(*                                                                         *)
(* Decimal values are modelled as the decimal module holds them: a sign, a *)
(* coefficient and an exponent.  The coefficient is a sequence of decimal  *)
(* digits, most significant first, without leading zeros (the empty        *)
(* sequence is zero), so that the 28 significant digits of the context     *)
(* are kept in full.                                                       *)
(***************************************************************************)
EXTENDS Integers, Sequences, FiniteSets, TLC

(***************************************************************************)
(* Natural numbers of any size.  A coefficient is a sequence of decimal    *)
(* digits, most significant first; it is computed with in limbs of four    *)
(* digits, least significant limb first, without high zero limbs.          *)
(***************************************************************************)
Base ==
    100 * 100

RECURSIVE Strip(_)
Strip(a) ==
    IF a = <<>> THEN <<>>
    ELSE IF a[1] = 0 THEN Strip(Tail(a)) ELSE a

Zeros(n) ==
    [i \in 1..n |-> 0]

Front(a) ==
    SubSeq(a, 1, Len(a) - 1)

ToLimbs(a) ==
    LET n    == Len(a)
        D(i) == IF i >= 1 THEN a[i] ELSE 0
    IN  [j \in 1..((n + 3) \div 4) |->
            D(n - 4 * (j - 1)) + 10 * D(n - 4 * (j - 1) - 1)
              + 100 * D(n - 4 * (j - 1) - 2) + 1000 * D(n - 4 * (j - 1) - 3)]

FromLimbs(l) ==
    LET n == 4 * Len(l)
        P == <<1000, 100, 10, 1>>
    IN  Strip([i \in 1..n |->
                 (l[Len(l) - ((i - 1) \div 4)] \div P[((i - 1) % 4) + 1]) % 10])

RECURSIVE LNorm(_)
LNorm(l) ==
    IF l = <<>> THEN <<>>
    ELSE IF l[Len(l)] = 0 THEN LNorm(Front(l)) ELSE l

RECURSIVE LCmpFrom(_, _, _)
LCmpFrom(a, b, i) ==
    IF i = 0 THEN 0
    ELSE IF a[i] < b[i] THEN -1
    ELSE IF a[i] > b[i] THEN 1
    ELSE LCmpFrom(a, b, i - 1)

\* -1, 0 or 1 as a < b, a = b or a > b
LCmp(a, b) ==
    IF Len(a) < Len(b) THEN -1
    ELSE IF Len(a) > Len(b) THEN 1
    ELSE LCmpFrom(a, b, Len(a))

RECURSIVE LAddC(_, _, _)
LAddC(a, b, c) ==
    IF a = <<>> /\ b = <<>> THEN (IF c = 0 THEN <<>> ELSE <<c>>)
    ELSE LET s == (IF a = <<>> THEN 0 ELSE Head(a))
                    + (IF b = <<>> THEN 0 ELSE Head(b)) + c
         IN  <<s % Base>> \o LAddC(IF a = <<>> THEN <<>> ELSE Tail(a),
                                   IF b = <<>> THEN <<>> ELSE Tail(b),
                                   s \div Base)

RECURSIVE LSubB(_, _, _)
LSubB(a, b, c) ==
    IF a = <<>> THEN <<>>
    ELSE LET s == Head(a) - (IF b = <<>> THEN 0 ELSE Head(b)) - c
         IN  <<IF s < 0 THEN s + Base ELSE s>>
               \o LSubB(Tail(a), IF b = <<>> THEN <<>> ELSE Tail(b),
                        IF s < 0 THEN 1 ELSE 0)

\* a - b, for a >= b
LSub(a, b) ==
    LNorm(LSubB(a, b, 0))

\* a * d + c for one limb d
RECURSIVE LMulS(_, _, _)
LMulS(a, d, c) ==
    IF a = <<>> THEN (IF c = 0 THEN <<>> ELSE <<c>>)
    ELSE LET s == Head(a) * d + c
         IN  <<s % Base>> \o LMulS(Tail(a), d, s \div Base)

LShift(a) ==
    IF a = <<>> THEN <<>> ELSE <<0>> \o a

RECURSIVE LMul(_, _)
LMul(a, b) ==
    IF b = <<>> THEN <<>>
    ELSE LAddC(LNorm(LMulS(a, Head(b), 0)), LShift(LMul(a, Tail(b))), 0)

\* the largest q in lo..hi with q * b <= r
RECURSIVE LQuot(_, _, _, _)
LQuot(r, b, lo, hi) ==
    IF lo = hi THEN lo
    ELSE LET mid == (lo + hi + 1) \div 2
         IN  IF LCmp(LNorm(LMulS(b, mid, 0)), r) <= 0
             THEN LQuot(r, b, mid, hi)
             ELSE LQuot(r, b, lo, mid - 1)

\* long division of a by b from limb i down, with the quotient limbs q found
\* so far and the remainder r: r1 is r with limb i brought down, qi the limb
\* of the quotient it gives
RECURSIVE LDivAcc(_, _, _, _, _)
LDivTake(a, b, i, q, r1, qi) ==
    IF qi = 0 THEN LDivAcc(a, b, i - 1, <<0>> \o q, r1)
    ELSE LDivAcc(a, b, i - 1, <<qi>> \o q, LSub(r1, LNorm(LMulS(b, qi, 0))))

LDivLimb(a, b, i, q, r1) ==
    LDivTake(a, b, i, q, r1, LQuot(r1, b, 0, Base - 1))

LDivAcc(a, b, i, q, r) ==
    IF i = 0 THEN [q |-> LNorm(q), r |-> r]
    ELSE LDivLimb(a, b, i, q, LNorm(<<a[i]>> \o r))

NAdd(a, b) ==
    FromLimbs(LAddC(ToLimbs(a), ToLimbs(b), 0))

NMul(a, b) ==
    FromLimbs(LMul(ToLimbs(a), ToLimbs(b)))

\* divmod(a, b) for b # 0: [q |-> a div b, r |-> a mod b]
DivModOf(dm) ==
    [q |-> FromLimbs(dm.q), r |-> FromLimbs(dm.r)]

NDivMod(a, b) ==
    DivModOf(LDivAcc(ToLimbs(a), ToLimbs(b), Len(ToLimbs(a)), <<>>, <<>>))

(***************************************************************************)
(* decimal.Decimal: [sign, int, exp] stands for (-1)^sign * int * 10^exp.  *)
(* An operation gives a Decimal or the exception it raises, a record with  *)
(* the field exc.                                                          *)
(***************************************************************************)
\* getcontext().prec
Prec == 28

Dec(sign, int, exp) ==
    [sign |-> sign, int |-> int, exp |-> exp]

IsExc(v) ==
    "exc" \in DOMAIN v

DecimalException(name) ==
    [exc |-> name, msg |-> "[<class 'decimal." \o name \o "'>]"]

IsZero(d) ==
    d.int = <<>>

RECURSIVE AllZeros(_, _)
AllZeros(int, i) ==
    IF i > Len(int) THEN TRUE
    ELSE IF int[i] # 0 THEN FALSE ELSE AllZeros(int, i + 1)

\* Decimal._round_half_up: 1 to round up, 0 exact, -1 to round down,
\* keeping the first digits of int (digits < Len(int))
RoundHalfUpFn(int, digits) ==
    IF int[digits + 1] >= 5 THEN 1
    ELSE IF AllZeros(int, digits + 1) THEN 0
    ELSE -1

\* Decimal._round_half_even
RoundHalfEvenFn(int, digits) ==
    IF /\ int[digits + 1] = 5
       /\ AllZeros(int, digits + 2)
       /\ (digits = 0 \/ int[digits] % 2 = 0)
    THEN -1
    ELSE RoundHalfUpFn(int, digits)

\* Decimal._fix under the context: at most Prec digits, ROUND_HALF_EVEN.
\* The exponent limits Emin and Emax (+-999999) are out of the model's reach.
Rounded(sign, coeff, exp_min) ==
    IF Len(coeff) > Prec
    THEN Dec(sign, Front(coeff), exp_min + 1)
    ELSE Dec(sign, coeff, exp_min)

Fix(d) ==
    IF Len(d.int) <= Prec THEN d
    ELSE Rounded(d.sign,
                 IF RoundHalfEvenFn(d.int, Prec) > 0
                 THEN NAdd(SubSeq(d.int, 1, Prec), <<1>>)
                 ELSE SubSeq(d.int, 1, Prec),
                 Len(d.int) + d.exp - Prec)

\* the exact quotient as close to the ideal exponent as its zeros allow
RECURSIVE Ideal(_, _, _)
Ideal(coeff, exp, ideal_exp) ==
    IF exp < ideal_exp /\ coeff # <<>> /\ coeff[Len(coeff)] = 0
    THEN Ideal(Front(coeff), exp + 1, ideal_exp)
    ELSE [coeff |-> coeff, exp |-> exp]

IdealOf(sign, id) ==
    Dec(sign, id.coeff, id.exp)

\* Decimal.__truediv__, from divmod on: dm is divmod of the shifted operands
Quotient(sign, dm, exp, ideal_exp) ==
    IF dm.r # <<>>
    THEN Fix(Dec(sign,
                 IF dm.q = <<>> \/ dm.q[Len(dm.q)] % 5 = 0
                 THEN NAdd(dm.q, <<1>>) ELSE dm.q,
                 exp))
    ELSE Fix(IdealOf(sign, Ideal(dm.q, exp, ideal_exp)))

\* Decimal.__truediv__
Div(a, b) ==
    LET sign  == (a.sign + b.sign) % 2
        shift == Len(b.int) - Len(a.int) + Prec + 1
    IN  IF IsZero(b)
        THEN (IF IsZero(a) THEN DecimalException("InvalidOperation")
                           ELSE DecimalException("DivisionByZero"))
        ELSE IF IsZero(a) THEN Fix(Dec(sign, <<>>, a.exp - b.exp))
        ELSE Quotient(sign,
                      IF shift >= 0
                      THEN NDivMod(a.int \o Zeros(shift), b.int)
                      ELSE NDivMod(a.int, b.int \o Zeros(-shift)),
                      a.exp - b.exp - shift,
                      a.exp - b.exp)

\* Decimal.__mul__
Mul(a, b) ==
    LET sign == (a.sign + b.sign) % 2
    IN  IF IsZero(a) \/ IsZero(b) THEN Fix(Dec(sign, <<>>, a.exp + b.exp))
        ELSE Fix(Dec(sign,
                     NMul(a.int, b.int),
                     a.exp + b.exp))

\* Decimal._rescale(exp, ROUND_HALF_UP)
Rescale(d, exp) ==
    IF IsZero(d) THEN Dec(d.sign, <<>>, exp)
    ELSE IF d.exp >= exp THEN Dec(d.sign, d.int \o Zeros(d.exp - exp), exp)
    ELSE LET digits == Len(d.int) + d.exp - exp
         IN  IF digits < 0 THEN Dec(d.sign, <<>>, exp)
             ELSE LET changed == RoundHalfUpFn(d.int, digits)
                      kept    == SubSeq(d.int, 1, digits)
                  IN  Dec(d.sign,
                          IF changed = 1 THEN NAdd(kept, <<1>>) ELSE kept,
                          exp)

Quantized(ans) ==
    IF Len(ans.int) > Prec THEN DecimalException("InvalidOperation") ELSE ans

\* Decimal.quantize(Decimal(10) ** exp, rounding=ROUND_HALF_UP)
Quantize(d, exp) ==
    IF IsZero(d) THEN Dec(d.sign, <<>>, exp)
    ELSE IF (d.exp + Len(d.int) - 1) - exp + 1 > Prec
         THEN DecimalException("InvalidOperation")
    ELSE Quantized(Rescale(d, exp))

DigitOf ==
    [c \in {"0", "1", "2", "3", "4", "5", "6", "7", "8", "9"} |->
        CASE c = "0" -> 0 [] c = "1" -> 1 [] c = "2" -> 2 [] c = "3" -> 3
          [] c = "4" -> 4 [] c = "5" -> 5 [] c = "6" -> 6 [] c = "7" -> 7
          [] c = "8" -> 8 [] c = "9" -> 9]

CharAt(s, i) ==
    SubSeq(s, i, i)

\* the digits of s[i..], up to the first character that is no digit
RECURSIVE DigitRun(_, _)
DigitRun(s, i) ==
    IF i > Len(s) \/ CharAt(s, i) \notin DOMAIN DigitOf THEN <<>>
    ELSE <<DigitOf[CharAt(s, i)]>> \o DigitRun(s, i + 1)

\* Decimal(s) for a string s: an optional sign, digits, and an optional point
\* with digits after it; the exponent, Infinity and NaN forms are not modelled.
DecimalOf(s) ==
    LET signed  == Len(s) > 0 /\ CharAt(s, 1) \in {"-", "+"}
        sign    == IF signed /\ CharAt(s, 1) = "-" THEN 1 ELSE 0
        start   == IF signed THEN 2 ELSE 1
        intpart == DigitRun(s, start)
        dot     == start + Len(intpart)
        pointed == dot <= Len(s) /\ CharAt(s, dot) = "."
        frac    == IF pointed THEN DigitRun(s, dot + 1) ELSE <<>>
        last    == IF pointed THEN dot + Len(frac) ELSE dot - 1
    IN  IF last # Len(s) \/ Len(intpart) + Len(frac) = 0
        THEN DecimalException("InvalidOperation")
        ELSE Dec(sign, Strip(intpart \o frac), -Len(frac))

One ==
    Dec(0, <<1>>, 0)

\* the value without the trailing zeros of its coefficient
RECURSIVE Normalize(_)
Normalize(d) ==
    IF IsZero(d) THEN Dec(0, <<>>, 0)
    ELSE IF d.int[Len(d.int)] = 0 THEN Normalize(Dec(d.sign, Front(d.int), d.exp + 1))
    ELSE d

\* float(d): a double holds every decimal of at most 15 significant digits
\* (DBL_DIG) so that it reads back as the same number; a longer one is the
\* nearest double, which is kept apart from every exact decimal.
Double(n) ==
    IF Len(n.int) <= 15 THEN n ELSE [binary64 |-> n]

float(d) ==
    Double(Normalize(d))

(***************************************************************************)
(* The program.                                                            *)
(***************************************************************************)
\* CACHE_TTL, in seconds (the default of the environment variable)
CACHE_TTL == 300

symbols ==
    <<"BTCUSDT", "BTCEUR", "BTCGBP">>

\* the values of the Literal type of ccy_from and ccy_to
Currencies ==
    {"USD", "EUR", "GBP"}

EmptyDict ==
    [k \in {} |-> 0]

None ==
    <<>>

\* {**a, **b}
Merge(a, b) ==
    [k \in DOMAIN a \cup DOMAIN b |-> IF k \in DOMAIN b THEN b[k] ELSE a[k]]

\* d[k] = v
Put(d, k, v) ==
    [j \in DOMAIN d \cup {k} |-> IF j = k THEN v ELSE d[j]]

HTTPException(status_code, detail) ==
    [exc |-> "HTTPException", status_code |-> status_code, detail |-> detail]

KeyError(key) ==
    [exc |-> "KeyError", msg |-> "'" \o key \o "'"]

startswith(s, prefix) ==
    Len(s) >= Len(prefix) /\ SubSeq(s, 1, Len(prefix)) = prefix

RECURSIVE SetToSeq(_)
SetToSeq(S) ==
    IF S = {} THEN <<>>
    ELSE LET k == CHOOSE k \in S : TRUE IN <<k>> \o SetToSeq(S \ {k})

\* the keys of a dict in the order of insertion: _fetch_rates inserts in the
\* order of symbols
KeysOf(d) ==
    SelectSeq(symbols, LAMBDA k : k \in DOMAIN d)
      \o SetToSeq(DOMAIN d \ {symbols[i] : i \in DOMAIN symbols})

(***************************************************************************)
(* The upstream source: what it may answer to the request for one symbol.  *)
(***************************************************************************)
Quotes ==
    [sym \in {symbols[i] : i \in DOMAIN symbols} |->
        CASE sym = "BTCUSDT" -> {"100000", "0"}
          [] sym = "BTCEUR"  -> {"90000", "abc"}
          [] sym = "BTCGBP"  -> {"80000", "64000", "-80000"}]

Answers(sym) ==
    {[status_code |-> 500, json |-> EmptyDict],
     [status_code |-> 200, json |-> EmptyDict]}
      \cup {[status_code |-> 200, json |-> [price |-> q]] : q \in Quotes[sym]}

\* _fetch_rates, for the answer r to the request for sym: the price, or the
\* exception raised
fetch_one(sym, r) ==
    IF r.status_code # 200
    THEN HTTPException(502, "Binance error for " \o sym)
    ELSE IF "price" \notin DOMAIN r.json
    THEN HTTPException(502, "Malformed Binance response for " \o sym)
    ELSE DecimalOf(r.json.price)

\* _build_cross_rates, the loop of lines 82-89 from the i-th key of prices on:
\* the dict cross_rates it leaves, or the exception raised
RECURSIVE cross_loop(_, _, _, _, _)
\* a variant of cross_pair that stores the two quotients under each other's key
cross_pair_swapped(prices, btc_usd, keys, i, cross_rates, fiat, to_usd, from_usd) ==
    IF IsExc(to_usd) THEN to_usd
    ELSE IF IsExc(from_usd) THEN from_usd
    ELSE cross_loop(prices, btc_usd, keys, i + 1,
                    Put(Put(cross_rates, fiat \o "USD", from_usd),
                        "USD" \o fiat, to_usd))

\* lines 88-89, with the two quotients computed
cross_pair(prices, btc_usd, keys, i, cross_rates, fiat, to_usd, from_usd) ==
    IF IsExc(to_usd) THEN to_usd
    ELSE IF IsExc(from_usd) THEN from_usd
    ELSE cross_loop(prices, btc_usd, keys, i + 1,
                    Put(Put(cross_rates, fiat \o "USD", to_usd),
                        "USD" \o fiat, from_usd))

cross_loop(prices, btc_usd, keys, i, cross_rates) ==
    IF i > Len(keys) THEN cross_rates
    ELSE LET symbol == keys[i]
         IN  IF symbol = "BTCUSDT" \/ ~startswith(symbol, "BTC")
             THEN cross_loop(prices, btc_usd, keys, i + 1, cross_rates)
             ELSE cross_pair(prices, btc_usd, keys, i, cross_rates,
                             SubSeq(symbol, 4, Len(symbol)),
                             Div(btc_usd, prices[symbol]),
                             Div(prices[symbol], btc_usd))

\* _build_cross_rates: the dict of cross rates, or the exception raised
\* a variant of cross_gbpeur that keeps two decimal places of the quotient
cross_gbpeur_rounded(cross_rates, gbpeur) ==
    IF IsExc(gbpeur) THEN gbpeur
    ELSE Put(cross_rates, "GBPEUR", Quantize(gbpeur, -2))

\* lines 95-97, with the quotient computed
cross_gbpeur(cross_rates, gbpeur) ==
    IF IsExc(gbpeur) THEN gbpeur ELSE Put(cross_rates, "GBPEUR", gbpeur)

\* a variant of cross_eurgbp that leaves GBPEUR to the reciprocal case of
\* convert
cross_eurgbp_only(cross_rates, eurgbp) ==
    Put(cross_rates, "EURGBP", eurgbp)

\* lines 94-95, with the product computed
cross_eurgbp(cross_rates, eurgbp) ==
    cross_gbpeur(Put(cross_rates, "EURGBP", eurgbp), Div(One, eurgbp))

\* lines 94-97, after the loop has left cross_rates or raised
cross_direct(cross_rates) ==
    IF IsExc(cross_rates) THEN cross_rates
    ELSE IF "EURUSD" \notin DOMAIN cross_rates THEN KeyError("EURUSD")
    ELSE IF "USDGBP" \notin DOMAIN cross_rates THEN KeyError("USDGBP")
    ELSE cross_eurgbp(cross_rates, Mul(cross_rates["EURUSD"], cross_rates["USDGBP"]))

_build_cross_rates(prices) ==
    IF "BTCUSDT" \notin DOMAIN prices
    THEN HTTPException(502, "BTCUSDT price missing")
    ELSE cross_direct(cross_loop(prices, prices["BTCUSDT"], KeysOf(prices), 1,
                                 EmptyDict))

\* round_number
round_number(v) ==
    Quantize(v, -2)

\* a variant of resolve_rate that tries the reciprocal before the direct pair
resolve_rate_reciprocal_first(table, ccy_from, ccy_to) ==
    LET pair    == ccy_from \o ccy_to
        reverse == ccy_to \o ccy_from
    IN  IF ccy_from = ccy_to THEN One
        ELSE IF reverse \in DOMAIN table THEN Div(One, table[reverse])
        ELSE IF pair \in DOMAIN table THEN table[pair]
        ELSE HTTPException(400, "Unsupported pair " \o pair)

\* convert, lines 118-133: the rate of the pair, or the exception raised
resolve_rate(table, ccy_from, ccy_to) ==
    LET pair    == ccy_from \o ccy_to
        reverse == ccy_to \o ccy_from
    IN  IF ccy_from = ccy_to THEN One
        ELSE IF pair \in DOMAIN table THEN table[pair]
        ELSE IF reverse \in DOMAIN table THEN Div(One, table[reverse])
        ELSE HTTPException(400, "Unsupported pair " \o pair)

\* convert, the body of its try block once _get_rates_cached has answered
\* got (a table, or the exception it raised): the response or the exception
\* line 136, with converted computed or raised
answer(converted, ccy_to) ==
    IF IsExc(converted) THEN converted
    ELSE [quantity |-> float(converted), ccy |-> ccy_to]

\* a variant of convert_rate that rounds the rate before it multiplies
convert_rate_rounded(rate, ccy_to, quantity) ==
    IF IsExc(rate) THEN rate
    ELSE answer(round_number(Mul(quantity, round_number(rate))), ccy_to)

\* lines 135-136, with the rate resolved or raised
convert_rate(rate, ccy_to, quantity) ==
    IF IsExc(rate) THEN rate
    ELSE answer(round_number(Mul(quantity, rate)), ccy_to)

convert_try(got, ccy_from, ccy_to, quantity) ==
    IF IsExc(got) THEN got
    ELSE convert_rate(resolve_rate(got, ccy_from, ccy_to), ccy_to, quantity)

\* a variant of convert_except that wraps every exception
convert_except_wraps(tried) ==
    IF ~IsExc(tried) THEN tried
    ELSE HTTPException(500, "Unexpected error: "
                              \o (IF tried.exc = "HTTPException" THEN tried.detail
                                  ELSE tried.msg))

\* convert, its except clauses
convert_except(tried) ==
    IF ~IsExc(tried) THEN tried
    ELSE IF tried.exc = "HTTPException" THEN tried
    ELSE HTTPException(500, "Unexpected error: " \o tried.msg)

convert(got, ccy_from, ccy_to, quantity) ==
    convert_except(convert_try(got, ccy_from, ccy_to, quantity))

\* a variant of rates that lists every key among the derived cross rates
rates_unsplit(got) ==
    IF IsExc(got) THEN got
    ELSE [binance_prices |->
              [k \in {j \in DOMAIN got : startswith(j, "BTC")} |-> float(got[k])],
          derived_cross_rates |-> [k \in DOMAIN got |-> float(got[k])]]

\* rates: it catches nothing
rates(got) ==
    IF IsExc(got) THEN got
    ELSE [binance_prices |->
              [k \in {j \in DOMAIN got : startswith(j, "BTC")} |-> float(got[k])],
          derived_cross_rates |->
              [k \in {j \in DOMAIN got : ~startswith(j, "BTC")} |-> float(got[k])]]

(***************************************************************************)
(* The bounds of the model.                                                *)
(***************************************************************************)
\* the requests in flight at once
Requests ==
    {"r1", "r2"}

\* the clock advances by TickStep seconds, up to MaxTime
TickStep == 150

MaxTime == 300

\* the quantities of the convert calls
Quantities ==
    {"100", "123.45", "0.005"}

NoArgs ==
    [ccy_from |-> "", ccy_to |-> "", quantity |-> ""]

\* the calls of convert
Conversions ==
    [ccy_from : Currencies, ccy_to : Currencies, quantity : Quantities]

\* the calls of convert that run beside other requests
Calls ==
    {[ccy_from |-> "GBP", ccy_to |-> "GBP", quantity |-> "123.45"],
     [ccy_from |-> "EUR", ccy_to |-> "GBP", quantity |-> "100"]}

\* the arguments of a call of the handler h
ArgsOf(h) ==
    IF h = "convert" THEN Calls ELSE {NoArgs}

(***************************************************************************)
(* The state.  A request runs its handler up to an await and is resumed by *)
(* the answer of the upstream source: pc is "idle" or "fetch", the latter  *)
(* while _fetch_rates awaits the answer for the last symbol of sent.       *)
(* The arguments of convert are first read after _get_rates_cached has     *)
(* answered, and are drawn by the step that reads them.                    *)
(*                                                                         *)
(* out records the last call that ended: the handler and its arguments,    *)
(* whether _get_rates_cached found the cache valid (hit), the symbols it   *)
(* requested (sent), the table it returned (returned, ret), the rate       *)
(* convert resolved, the exception raised inside the handler, and what the *)
(* handler answered or raised (response).  window[p] holds while nothing   *)
(* was stored since request p began its refresh.                           *)
(***************************************************************************)
VARIABLES _cache, _cache_expiry, now, pc, handler, fetched, sent, window, out

vars ==
    <<_cache, _cache_expiry, now, pc, handler, fetched, sent, window, out>>

NoCall ==
    [handler |-> "none", args |-> NoArgs, hit |-> FALSE, sent |-> <<>>,
     returned |-> FALSE, ret |-> EmptyDict, rate |-> <<>>, raised |-> <<>>,
     response |-> EmptyDict]

Init ==
    /\ _cache = EmptyDict
    /\ _cache_expiry = None
    /\ now = 0
    /\ pc = [p \in Requests |-> "idle"]
    /\ handler = [p \in Requests |-> "none"]
    /\ fetched = [p \in Requests |-> EmptyDict]
    /\ sent = [p \in Requests |-> <<>>]
    /\ window = [p \in Requests |-> FALSE]
    /\ out = NoCall

\* a variant of Valid in which the cache still counts at its expiry instant
ValidAtExpiry ==
    DOMAIN _cache # {} /\ _cache_expiry # None /\ now <= _cache_expiry[1]

\* line 56: the cache holds a table and has not expired
Valid ==
    DOMAIN _cache # {} /\ _cache_expiry # None /\ now < _cache_expiry[1]

(***************************************************************************)
(* Decimal arithmetic is long to evaluate, so the values of the pure       *)
(* functions of the program are computed once, on the inputs the bounds    *)
(* allow, and read from these tables; on any other input they are computed *)
(* in place.  (f @@ EmptyDict is f, held by TLC as an explicit function.)  *)
(***************************************************************************)
\* the dicts _fetch_rates can return
FetchedPrices ==
    {prices \in [DOMAIN Quotes -> {DecimalOf(q) : q \in UNION {Quotes[k] : k \in DOMAIN Quotes}}] :
        \A k \in DOMAIN Quotes :
           /\ ~IsExc(prices[k])
           /\ \E q \in Quotes[k] : prices[k] = DecimalOf(q)}

CrossRatesTable ==
    [prices \in FetchedPrices |-> _build_cross_rates(prices)] @@ EmptyDict

build_cross_rates(prices) ==
    IF prices \in DOMAIN CrossRatesTable THEN CrossRatesTable[prices]
    ELSE _build_cross_rates(prices)

\* the tables _get_rates_cached can store
StoredTables ==
    {Merge(prices, CrossRatesTable[prices]) :
        prices \in {pr \in FetchedPrices : ~IsExc(CrossRatesTable[pr])}}

\* the handler h, called with args, once _get_rates_cached has answered got:
\* the rate convert resolves, what the handler's code gives or raises before
\* any except clause (tried), and what the handler answers or raises
Tried(rate, tried, response) ==
    [rate |-> rate, tried |-> tried, response |-> response]

Handle(h, got, args) ==
    IF h = "convert"
    THEN Tried(IF IsExc(got) THEN <<>>
               ELSE <<resolve_rate(got, args.ccy_from, args.ccy_to)>>,
               convert_try(got, args.ccy_from, args.ccy_to, DecimalOf(args.quantity)),
               convert(got, args.ccy_from, args.ccy_to, DecimalOf(args.quantity)))
    ELSE Tried(<<>>, rates(got), rates(got))

HandleTable ==
    [k \in {<<"convert", got, args>> : got \in StoredTables, args \in Conversions}
             \cup {<<"rates", got, NoArgs>> : got \in StoredTables} |->
        Handle(k[1], k[2], k[3])] @@ EmptyDict

Handled(h, got, args) ==
    IF <<h, got, args>> \in DOMAIN HandleTable THEN HandleTable[<<h, got, args>>]
    ELSE Handle(h, got, args)

\* the record of the call of h with the arguments args, in which
\* _get_rates_cached has answered got after requesting the symbols log
Record(h, args, got, hit, log, done) ==
    [handler |-> h, args |-> args, hit |-> hit, sent |-> log,
     returned |-> ~IsExc(got),
     ret |-> IF IsExc(got) THEN EmptyDict ELSE got,
     rate |-> done.rate,
     raised |-> IF IsExc(done.tried) THEN <<done.tried>> ELSE <<>>,
     response |-> done.response]

Ended(h, args, got, hit, log) ==
    Record(h, args, got, hit, log, Handled(h, got, args))

Idle(p) ==
    /\ pc' = [pc EXCEPT ![p] = "idle"]
    /\ handler' = [handler EXCEPT ![p] = "none"]
    /\ fetched' = [fetched EXCEPT ![p] = EmptyDict]
    /\ sent' = [sent EXCEPT ![p] = <<>>]

\* time passes
Tick ==
    /\ now + TickStep <= MaxTime
    /\ now' = now + TickStep
    /\ UNCHANGED <<_cache, _cache_expiry, pc, handler, fetched, sent, window, out>>

\* a variant of CallValid in which a call served from the cache renews the
\* expiry instant
CallValidRenews(p, h, args) ==
    /\ pc[p] = "idle"
    /\ args \in ArgsOf(h)
    /\ Valid
    /\ out' = Ended(h, args, _cache, TRUE, <<>>)
    /\ _cache_expiry' = <<now + CACHE_TTL>>
    /\ UNCHANGED <<_cache, now, pc, handler, fetched, sent, window>>

\* a call that finds the cache valid: lines 56-58, then the handler's own code
CallValid(p, h, args) ==
    /\ pc[p] = "idle"
    /\ args \in ArgsOf(h)
    /\ Valid
    /\ out' = Ended(h, args, _cache, TRUE, <<>>)
    /\ UNCHANGED <<_cache, _cache_expiry, now, pc, handler, fetched, sent, window>>

\* a variant of CallStale in which a call waits while another request is
\* refreshing
CallStaleWaits(p, h) ==
    /\ pc[p] = "idle"
    /\ ~Valid
    /\ \A q \in Requests : pc[q] = "idle"
    /\ pc' = [pc EXCEPT ![p] = "fetch"]
    /\ handler' = [handler EXCEPT ![p] = h]
    /\ fetched' = [fetched EXCEPT ![p] = EmptyDict]
    /\ sent' = [sent EXCEPT ![p] = <<symbols[1]>>]
    /\ window' = [window EXCEPT ![p] = TRUE]
    /\ UNCHANGED <<_cache, _cache_expiry, now, out>>

\* a call that finds the cache empty or expired: line 56, then _fetch_rates up
\* to its first await, the request for the first symbol
CallStale(p, h) ==
    /\ pc[p] = "idle"
    /\ ~Valid
    /\ pc' = [pc EXCEPT ![p] = "fetch"]
    /\ handler' = [handler EXCEPT ![p] = h]
    /\ fetched' = [fetched EXCEPT ![p] = EmptyDict]
    /\ sent' = [sent EXCEPT ![p] = <<symbols[1]>>]
    /\ window' = [window EXCEPT ![p] = TRUE]
    /\ UNCHANGED <<_cache, _cache_expiry, now, out>>

\* the symbol whose answer p awaits: the last one it requested
Awaited(p) ==
    sent[p][Len(sent[p])]

\* the upstream source answers r to the request p awaits
Answered(p, r) ==
    /\ pc[p] = "fetch"
    /\ r \in Answers(Awaited(p))

\* a variant of FetchRaises in which a failed refresh empties the cache
FetchRaisesClears(p, r, args) ==
    /\ Answered(p, r)
    /\ args \in ArgsOf(handler[p])
    /\ IsExc(fetch_one(Awaited(p), r))
    /\ out' = Ended(handler[p], args, fetch_one(Awaited(p), r), FALSE, sent[p])
    /\ Idle(p)
    /\ window' = [window EXCEPT ![p] = FALSE]
    /\ _cache' = EmptyDict
    /\ _cache_expiry' = None
    /\ UNCHANGED now

\* the answer r makes _fetch_rates raise: lines 41-46; the exception leaves
\* _get_rates_cached and reaches the handler
FetchRaises(p, r, args) ==
    /\ Answered(p, r)
    /\ args \in ArgsOf(handler[p])
    /\ IsExc(fetch_one(Awaited(p), r))
    /\ out' = Ended(handler[p], args, fetch_one(Awaited(p), r), FALSE, sent[p])
    /\ Idle(p)
    /\ window' = [window EXCEPT ![p] = FALSE]
    /\ UNCHANGED <<_cache, _cache_expiry, now>>

\* a variant of FetchNext that goes on to the next symbol after an answer
\* without a price
FetchNextSkips(p, r) ==
    /\ Answered(p, r)
    /\ Len(sent[p]) < Len(symbols)
    /\ fetched' = [fetched EXCEPT ![p] =
                      IF IsExc(fetch_one(Awaited(p), r)) THEN @
                      ELSE Put(@, Awaited(p), fetch_one(Awaited(p), r))]
    /\ sent' = [sent EXCEPT ![p] = Append(@, symbols[Len(@) + 1])]
    /\ UNCHANGED <<_cache, _cache_expiry, now, pc, handler, window, out>>

\* the answer r holds a price and symbols are left: the next one is requested
FetchNext(p, r) ==
    /\ Answered(p, r)
    /\ Len(sent[p]) < Len(symbols)
    /\ ~IsExc(fetch_one(Awaited(p), r))
    /\ fetched' = [fetched EXCEPT ![p] = Put(@, Awaited(p), fetch_one(Awaited(p), r))]
    /\ sent' = [sent EXCEPT ![p] = Append(@, symbols[Len(@) + 1])]
    /\ UNCHANGED <<_cache, _cache_expiry, now, pc, handler, window, out>>

\* the answer r for the last symbol holds a price: _fetch_rates returns
Fetched(p, r) ==
    /\ Answered(p, r)
    /\ Len(sent[p]) = Len(symbols)
    /\ ~IsExc(fetch_one(Awaited(p), r))

\* the prices of p once the answer r for the last symbol is in
Prices(p, r) ==
    Put(fetched[p], Awaited(p), fetch_one(Awaited(p), r))

\* the last price is in and _build_cross_rates raises: line 64
BuildRaises(p, r, args) ==
    /\ Fetched(p, r)
    /\ args \in ArgsOf(handler[p])
    /\ IsExc(build_cross_rates(Prices(p, r)))
    /\ out' = Ended(handler[p], args, build_cross_rates(Prices(p, r)), FALSE,
                    sent[p])
    /\ Idle(p)
    /\ window' = [window EXCEPT ![p] = FALSE]
    /\ UNCHANGED <<_cache, _cache_expiry, now>>

\* a variant of Store that updates the stored table in place, the entries
\* other than the raw prices keeping their old values
StoreInPlace(p, r, args) ==
    /\ Fetched(p, r)
    /\ args \in ArgsOf(handler[p])
    /\ ~IsExc(build_cross_rates(Prices(p, r)))
    /\ _cache' = Merge(Merge(build_cross_rates(Prices(p, r)), _cache), Prices(p, r))
    /\ _cache_expiry' = <<now + CACHE_TTL>>
    /\ out' = Ended(handler[p], args, _cache', FALSE, sent[p])
    /\ Idle(p)
    /\ window' = [q \in Requests |-> FALSE]
    /\ UNCHANGED now

\* a variant of Store that keeps the expiry instant of a table that has not
\* expired
StoreKeepsExpiry(p, r, args) ==
    /\ Fetched(p, r)
    /\ args \in ArgsOf(handler[p])
    /\ ~IsExc(build_cross_rates(Prices(p, r)))
    /\ _cache' = Merge(Prices(p, r), build_cross_rates(Prices(p, r)))
    /\ _cache_expiry' = IF Valid THEN _cache_expiry ELSE <<now + CACHE_TTL>>
    /\ out' = Ended(handler[p], args, _cache', FALSE, sent[p])
    /\ Idle(p)
    /\ window' = [q \in Requests |-> FALSE]
    /\ UNCHANGED now

\* the last price is in: lines 64-68, then the handler's own code.  Leaving the
\* client's context, the await between the last answer and line 64, touches
\* nothing shared and is part of this step.
Store(p, r, args) ==
    /\ Fetched(p, r)
    /\ args \in ArgsOf(handler[p])
    /\ ~IsExc(build_cross_rates(Prices(p, r)))
    /\ _cache' = Merge(Prices(p, r), build_cross_rates(Prices(p, r)))
    /\ _cache_expiry' = <<now + CACHE_TTL>>
    /\ out' = Ended(handler[p], args, _cache', FALSE, sent[p])
    /\ Idle(p)
    /\ window' = [q \in Requests |-> FALSE]
    /\ UNCHANGED now

\* the handlers
Handlers ==
    {"convert", "rates"}

\* what the upstream source may answer to any request
AllAnswers ==
    UNION {Answers(symbols[i]) : i \in DOMAIN symbols}

\* the arguments of any call
AllArgs ==
    UNION {ArgsOf(h) : h \in Handlers}

Next ==
    \/ Tick
    \/ \E p \in Requests, h \in Handlers, args \in AllArgs : CallValid(p, h, args)
    \/ \E p \in Requests, h \in Handlers : CallStale(p, h)
    \/ \E p \in Requests, r \in AllAnswers : FetchNext(p, r)
    \/ \E p \in Requests, r \in AllAnswers, args \in AllArgs : FetchRaises(p, r, args)
    \/ \E p \in Requests, r \in AllAnswers, args \in AllArgs : BuildRaises(p, r, args)
    \/ \E p \in Requests, r \in AllAnswers, args \in AllArgs : Store(p, r, args)

Spec ==
    Init /\ [][Next]_vars

(***************************************************************************)
(* convert as the tests of the repository run it: _get_rates_cached is     *)
(* patched and answers a given table, or raises, whatever the cache holds. *)
(***************************************************************************)
PRICES ==
    [BTCUSDT |-> DecimalOf("100000"), BTCEUR |-> DecimalOf("90000"),
     BTCGBP |-> DecimalOf("80000")]

CROSS_RATES ==
    build_cross_rates(PRICES)

FLAT_CACHE ==
    Merge(PRICES, CROSS_RATES)

\* the entries of the dict d under the keys
Only(d, keys) ==
    [k \in DOMAIN d \cap keys |-> d[k]]

\* the tables the patch answers: FLAT_CACHE without some of its cross rates,
\* and a table that holds a rate of zero
PatchedTables ==
    {Only(FLAT_CACHE, DOMAIN PRICES \cup keys) : keys \in SUBSET DOMAIN CROSS_RATES}
      \cup {Put(PRICES, "GBPUSD", DecimalOf("0"))}

\* the exceptions _get_rates_cached can raise: those of _fetch_rates and
\* those of _build_cross_rates
Raisable ==
    {e \in {fetch_one(symbols[i], r) : i \in DOMAIN symbols, r \in AllAnswers} :
        IsExc(e)}
      \cup {e \in {CrossRatesTable[prices] : prices \in FetchedPrices} : IsExc(e)}
      \cup {_build_cross_rates(EmptyDict)}

\* one call of convert under the patch
Patched(got, args) ==
    /\ out.handler = "none"
    /\ out' = Ended("convert", args, got, FALSE, <<>>)
    /\ UNCHANGED <<_cache, _cache_expiry, now, pc, handler, fetched, sent, window>>

NextConvert ==
    \E got \in PatchedTables \cup Raisable, args \in Conversions : Patched(got, args)

SpecConvert ==
    Init /\ [][NextConvert]_vars

(***************************************************************************)
(* _build_cross_rates as the tests of the repository call it: on a dict of *)
(* prices, apart from any request.  out records the call, its argument     *)
(* (args) and the dict it returned or the exception it raised.             *)
(***************************************************************************)
\* the prices of the calls
BuildQuotes ==
    {"100000", "90000", "80000", "3", "0.07", "0"}

\* the dicts of prices of the calls: every subset of the three symbols
BuildPrices ==
    UNION {[keys -> {DecimalOf(q) : q \in BuildQuotes}] : keys \in SUBSET DOMAIN PRICES}

\* one call of _build_cross_rates, with what it returned or raised
BuildCall(prices, cross_rates) ==
    Record("_build_cross_rates", prices, cross_rates, FALSE, <<>>,
           Tried(<<>>, cross_rates, cross_rates))

Built(prices) ==
    /\ out.handler = "none"
    /\ out' = BuildCall(prices, _build_cross_rates(prices))
    /\ UNCHANGED <<_cache, _cache_expiry, now, pc, handler, fetched, sent, window>>

NextBuild ==
    \E prices \in BuildPrices : Built(prices)

SpecBuild ==
    Init /\ [][NextBuild]_vars

(***************************************************************************)
(* The properties of the cache, stated of Spec.                            *)
(***************************************************************************)
RawKeys ==
    {"BTCUSDT", "BTCEUR", "BTCGBP"}

CrossKeys ==
    {"EURUSD", "USDEUR", "GBPUSD", "USDGBP", "EURGBP", "GBPEUR"}

\* the table t holds the three raw prices and the six cross rates derived
\* from these very prices
Complete(t) ==
    /\ DOMAIN t = RawKeys \cup CrossKeys
    /\ \A k \in RawKeys : ~IsExc(t[k])
    /\ Only(t, CrossKeys) = build_cross_rates(Only(t, RawKeys))

\* request p starts a refresh in this step
Starts(p) ==
    pc[p] = "idle" /\ pc'[p] = "fetch"

\* the call of request p, which was refreshing, ends in this step
Ends(p) ==
    pc[p] = "fetch" /\ pc'[p] = "idle"

\* a call is answered in this step without any request being in flight for it
AnsweredAtOnce ==
    out' # out /\ pc' = pc

\* the cache is non-empty and the time is strictly before the expiry instant
Fresh ==
    DOMAIN _cache # {} /\ _cache_expiry # None /\ now < _cache_expiry[1]

\* C1: a call of _get_rates_cached that finds the cache non-empty and the time
\* strictly before the expiry instant returns the stored table, requests
\* nothing upstream and changes nothing; any other call starts a refresh, and
\* a refresh that succeeds has requested the three symbols, stores the raw
\* prices merged with the cross rates derived from them together with the
\* expiry instant (time of the store) + CACHE_TTL, and returns the stored table.
C1_GetContract ==
    [][/\ AnsweredAtOnce =>
             /\ Fresh
             /\ out'.hit /\ out'.returned /\ out'.ret = _cache /\ out'.sent = <<>>
             /\ UNCHANGED <<_cache, _cache_expiry, sent, fetched>>
       /\ \A p \in Requests :
             /\ Starts(p) => ~Fresh /\ UNCHANGED <<_cache, _cache_expiry, out>>
             /\ Ends(p) /\ out'.returned =>
                   /\ ~out'.hit
                   /\ out'.sent = <<"BTCUSDT", "BTCEUR", "BTCGBP">>
                   /\ Complete(_cache')
                   /\ \A k \in DOMAIN fetched[p] : _cache'[k] = fetched[p][k]
                   /\ _cache_expiry' = <<now + CACHE_TTL>>
                   /\ now' = now
                   /\ out'.ret = _cache']_vars

\* a call answered from the cache, after the cache was refilled on its expiry
C1_Witness ==
    /\ out.hit /\ out.returned /\ out.ret = _cache
    /\ now >= CACHE_TTL
    /\ _cache_expiry = <<now + CACHE_TTL>>

\* C2: a refresh that fails, in _fetch_rates or in _build_cross_rates, leaves
\* the table and the expiry instant as they are, whatever the other requests
\* have stored meanwhile, and its exception reaches the caller, who gets no
\* table; the table and the expiry instant change only in the step in which a
\* refresh succeeds, so that they are what they were when the failed call
\* began unless another request has stored since (window).
C2_FailedRefresh ==
    [][/\ \A p \in Requests :
             /\ Ends(p) /\ ~out'.returned =>
                   /\ UNCHANGED <<_cache, _cache_expiry>>
                   /\ out'.ret = EmptyDict
                   /\ out'.raised # <<>> /\ out'.raised[1] \in Raisable
                   /\ IsExc(out'.response)
                   /\ out'.handler = "rates" => out'.response = out'.raised[1]
             /\ window[p] /\ (window'[p] \/ (Ends(p) /\ ~out'.returned)) =>
                   UNCHANGED <<_cache, _cache_expiry>>
             /\ Starts(p) => window'[p]
       /\ (_cache' # _cache \/ _cache_expiry' # _cache_expiry) =>
             \E p \in Requests : Ends(p) /\ out'.returned /\ out'.ret = _cache']_vars

\* a refresh has failed after another request's refresh stored a table, which
\* is still there and still valid
C2_Witness ==
    /\ out.handler # "none" /\ ~out.returned /\ out.sent # <<>>
    /\ Complete(_cache)
    /\ now < _cache_expiry[1]

\* C3: in every state the cache is empty or holds a complete table, the three
\* raw prices of one refresh with the six cross rates derived from them, and
\* every table _get_rates_cached returns is such a table.
C3_NoPartialState ==
    /\ _cache = EmptyDict \/ Complete(_cache)
    /\ out.returned => Complete(out.ret)

\* a table is stored and valid while another request, which began its refresh
\* before the store, has its last price request in flight
C3_Witness ==
    /\ Complete(_cache) /\ now < _cache_expiry[1]
    /\ out.returned /\ out.ret = _cache
    /\ \E p \in Requests : pc[p] = "fetch" /\ Len(sent[p]) = Len(symbols)

\* C4: at most one refresh is under way for one expiry window: no two
\* requests are refreshing with no store since either of them began.
C4_OncePerWindow ==
    Cardinality({p \in Requests : pc[p] = "fetch" /\ window[p]}) <= 1

\* C5: a call that ends while the stored table has not expired returns the
\* table the previous call returned.
C5_Freshness ==
    [][out' # out /\ out'.returned /\ out.returned /\ Fresh
          => out'.ret = out.ret]_vars

\* C9: _fetch_rates requests BTCUSDT, then BTCEUR, then BTCGBP, each once and
\* each only after the price of the one before is in; a failing answer ends
\* the call with an error that names the symbol last requested and with no
\* table, and a call that gets a table has requested all three symbols.
C9_FetchOrder ==
    [][\A p \in Requests :
          /\ Starts(p) => sent'[p] = <<"BTCUSDT">> /\ fetched'[p] = EmptyDict
          /\ pc[p] = "fetch" /\ pc'[p] = "fetch" /\ sent'[p] # sent[p] =>
                /\ Len(sent[p]) < 3
                /\ sent'[p] = SubSeq(<<"BTCUSDT", "BTCEUR", "BTCGBP">>, 1,
                                     Len(sent[p]) + 1)
                /\ DOMAIN fetched'[p] = {sent[p][i] : i \in DOMAIN sent[p]}
                /\ \A k \in DOMAIN fetched'[p] : ~IsExc(fetched'[p][k])
                /\ \A k \in DOMAIN fetched[p] : fetched'[p][k] = fetched[p][k]
          /\ pc[p] = "fetch" /\ pc'[p] = "fetch" /\ sent'[p] = sent[p] =>
                fetched'[p] = fetched[p]
          /\ Ends(p) =>
                /\ out'.sent = sent[p]
                /\ out'.returned =>
                      /\ out'.sent = <<"BTCUSDT", "BTCEUR", "BTCGBP">>
                      /\ \A k \in RawKeys :
                            k \in DOMAIN out'.ret /\ ~IsExc(out'.ret[k])
                /\ Len(sent[p]) < 3 =>
                      /\ ~out'.returned /\ out'.ret = EmptyDict
                      /\ out'.raised # <<>>
                /\ ~out'.returned /\ out'.raised[1].exc = "HTTPException" =>
                      out'.raised[1] \in
                         {HTTPException(502, "Binance error for "
                                               \o sent[p][Len(sent[p])]),
                          HTTPException(502, "Malformed Binance response for "
                                               \o sent[p][Len(sent[p])])}]_vars

\* the second symbol was answered without a price: the call has ended after
\* two requests with the error that names BTCEUR
C9_Witness ==
    /\ ~out.returned
    /\ out.sent = <<"BTCUSDT", "BTCEUR">>
    /\ out.raised = <<HTTPException(502, "Malformed Binance response for BTCEUR")>>

(***************************************************************************)
(* The properties of convert.  C7 is stated of Spec, the others of         *)
(* SpecConvert, in which every table and every exception reaches convert.  *)
(***************************************************************************)
\* the pair of the last call, and its reverse
pair ==
    out.args.ccy_from \o out.args.ccy_to

reverse ==
    out.args.ccy_to \o out.args.ccy_from

\* C6: once _get_rates_cached has returned a table, convert takes the rate 1
\* when the two currencies are the same; else the entry of the table under
\* from+to when there is one, whether or not there is one under to+from; else
\* 1 / the entry under to+from when there is one; else it raises the
\* HTTPException of status 400 whose detail names from+to.
C6_Resolution ==
    out.handler = "convert" /\ out.returned =>
       IF out.args.ccy_from = out.args.ccy_to THEN out.rate = <<One>>
       ELSE IF pair \in DOMAIN out.ret THEN out.rate = <<out.ret[pair]>>
       ELSE IF reverse \in DOMAIN out.ret
            THEN out.rate = <<Div(One, out.ret[reverse])>>
       ELSE /\ out.rate = <<HTTPException(400, "Unsupported pair " \o pair)>>
            /\ out.response = HTTPException(400, "Unsupported pair " \o pair)

\* the table holds both EURGBP and GBPEUR, 1 / GBPEUR is another number than
\* EURGBP, and convert from EUR to GBP has taken EURGBP
C6_Witness ==
    /\ out.handler = "convert" /\ out.returned
    /\ pair = "EURGBP"
    /\ {"EURGBP", "GBPEUR"} \subseteq DOMAIN out.ret
    /\ out.rate = <<out.ret["EURGBP"]>>
    /\ out.ret["EURGBP"] # Div(One, out.ret["GBPEUR"])

\* C7: convert between a currency and itself answers the quantity rounded to
\* two places, in that currency, whatever the cache holds and whatever the
\* upstream source answers.
C7_Identity ==
    out.handler = "convert" /\ out.args.ccy_from = out.args.ccy_to =>
       out.response = [quantity |-> float(round_number(DecimalOf(out.args.quantity))),
                       ccy |-> out.args.ccy_to]

\* the errors of the upstream source: a status other than 200, a missing
\* price, a missing price of BTCUSDT
UpstreamErrors ==
    {HTTPException(502, "Binance error for " \o sym) : sym \in RawKeys}
      \cup {HTTPException(502, "Malformed Binance response for " \o sym) :
               sym \in RawKeys}
      \cup {HTTPException(502, "BTCUSDT price missing")}

\* C8: a call of convert fails exactly when an exception is raised inside it,
\* and then with an HTTPException of status 400, 502 or 500: 400 exactly when
\* the table holds neither the pair nor its reverse, 502 exactly when
\* _get_rates_cached raised an error of the upstream source, 500 exactly when
\* the exception raised is no HTTPException, its text then being in the
\* detail; an HTTPException raised inside is the one convert raises.
C8_Statuses ==
    out.handler = "convert" =>
       /\ IsExc(out.response) <=> out.raised # <<>>
       /\ out.raised # <<>> =>
             /\ out.response.exc = "HTTPException"
             /\ out.response.status_code \in {400, 502, 500}
             /\ out.raised[1].exc = "HTTPException" => out.response = out.raised[1]
             /\ out.response.status_code = 400 <=>
                   /\ out.returned
                   /\ out.args.ccy_from # out.args.ccy_to
                   /\ pair \notin DOMAIN out.ret
                   /\ reverse \notin DOMAIN out.ret
             /\ out.response.status_code = 502 <=>
                   ~out.returned /\ out.raised[1] \in UpstreamErrors
             /\ out.response.status_code = 500 <=>
                   out.raised[1].exc # "HTTPException"
             /\ out.raised[1].exc # "HTTPException" =>
                   out.response.detail = "Unexpected error: " \o out.raised[1].msg

\* a rate of zero in the table: the division of the reciprocal case raises
\* DivisionByZero and convert answers 500
C8_Witness ==
    /\ out.handler = "convert" /\ out.returned
    /\ out.raised = <<DecimalException("DivisionByZero")>>
    /\ out.response =
          HTTPException(500, "Unexpected error: [<class 'decimal.DivisionByZero'>]")

\* C10: convert answers the target currency and quantity * rate rounded half up
\* to two places, the rate itself not being rounded: with the table built from
\* the prices 100000, 90000 and 80000, 100 USD are 80.00 GBP and 90.00 EUR and
\* 100 EUR are 88.89 GBP (89.00 if the rate were rounded first); 0.005 of a
\* currency is 0.01 of the same.
C10_Rounding ==
    out.handler = "convert" /\ ~IsExc(out.response) =>
       /\ out.response.ccy = out.args.ccy_to
       /\ out.response.quantity =
             float(Quantize(Mul(DecimalOf(out.args.quantity), out.rate[1]), -2))
       /\ out.ret = FLAT_CACHE /\ out.args.quantity = "100" =>
             /\ pair = "USDGBP" => out.response.quantity = float(DecimalOf("80.00"))
             /\ pair = "USDEUR" => out.response.quantity = float(DecimalOf("90.00"))
             /\ pair = "EURGBP" => out.response.quantity = float(DecimalOf("88.89"))
       /\ out.args.ccy_from = out.args.ccy_to /\ out.args.quantity = "0.005" =>
             out.response.quantity = float(DecimalOf("0.01"))

\* 100 EUR have been converted to GBP with the table of the prices 100000,
\* 90000 and 80000, at a rate that is no multiple of 0.01
C10_Witness ==
    /\ out.handler = "convert" /\ out.ret = FLAT_CACHE
    /\ pair = "EURGBP" /\ out.args.quantity = "100"
    /\ out.rate # <<round_number(out.rate[1])>>
    /\ out.response = [quantity |-> float(DecimalOf("88.89")), ccy |-> "GBP"]

(***************************************************************************)
(* The properties of _build_cross_rates, stated of SpecBuild.              *)
(***************************************************************************)
\* a Decimal above zero
Positive(d) ==
    ~IsExc(d) /\ d.sign = 0 /\ ~IsZero(d)

\* the last call was one of _build_cross_rates on the three prices, all
\* above zero
BuiltOfPrices ==
    /\ out.handler = "_build_cross_rates"
    /\ DOMAIN out.args = RawKeys
    /\ \A k \in RawKeys : Positive(out.args[k])

\* C11: _build_cross_rates, given prices above zero of BTCUSDT, BTCEUR and
\* BTCGBP, returns a dict of exactly the keys EURUSD, USDEUR, GBPUSD, USDGBP,
\* EURGBP and GBPEUR, in which FUSD is BTCUSDT / BTCF and USDF is
\* BTCF / BTCUSDT for F = EUR and F = GBP, EURGBP is EURUSD * USDGBP and
\* GBPEUR is 1 / EURGBP, each the result of the Decimal operation; given
\* prices without BTCUSDT it raises the HTTPException of status 502 and
\* returns nothing.
C11_CrossRates ==
    /\ BuiltOfPrices =>
          /\ out.returned /\ out.raised = <<>>
          /\ DOMAIN out.ret = CrossKeys
          /\ \A F \in {"EUR", "GBP"} :
                /\ out.ret[F \o "USD"] = Div(out.args["BTCUSDT"], out.args["BTC" \o F])
                /\ out.ret["USD" \o F] = Div(out.args["BTC" \o F], out.args["BTCUSDT"])
          /\ out.ret["EURGBP"] = Mul(out.ret["EURUSD"], out.ret["USDGBP"])
          /\ out.ret["GBPEUR"] = Div(One, out.ret["EURGBP"])
    /\ out.handler = "_build_cross_rates" /\ "BTCUSDT" \notin DOMAIN out.args =>
          /\ ~out.returned /\ out.ret = EmptyDict
          /\ out.raised = <<HTTPException(502, "BTCUSDT price missing")>>

\* the call on the prices 100000, 90000 and 80000: EURGBP is the product
\* EURUSD * USDGBP, which is another number than BTCGBP / BTCEUR
C11_Witness ==
    /\ BuiltOfPrices /\ out.args = PRICES
    /\ out.ret["USDEUR"] = DecimalOf("0.9") /\ out.ret["GBPUSD"] = DecimalOf("1.25")
    /\ out.ret["EURGBP"] = DecimalOf("0.8888888888888888888888888888")
    /\ out.ret["EURGBP"] # Div(out.args["BTCGBP"], out.args["BTCEUR"])

\* 10^Prec - 10 and 10^Prec + 10, in digits
NearOneLow ==
    [i \in 1..Prec |-> IF i < Prec THEN 9 ELSE 0]

NearOneHigh ==
    <<1>> \o Zeros(Prec - 2) \o <<1, 0>>

\* -1, 0 or 1 as a < b, a = b or a > b, for coefficients
NCmp(a, b) ==
    LCmp(ToLimbs(a), ToLimbs(b))

\* the coefficient of d at the exponent -Prec
Scaled(d) ==
    d.int \o Zeros(d.exp + Prec)

\* |d - 1| <= 10^(1 - Prec): d is 1 up to one unit of the last of the Prec
\* digits of 1
NearOne(d) ==
    /\ Positive(d)
    /\ d.exp >= -Prec
    /\ NCmp(NearOneLow, Scaled(d)) <= 0
    /\ NCmp(Scaled(d), NearOneHigh) <= 0

\* the ordered pairs of distinct currencies
Pairs ==
    {<<A, B>> \in Currencies \X Currencies : A # B}

\* C12: in every dict _build_cross_rates returns for three prices above zero,
\* the Decimal product of the rate of A to B and the rate of B to A is 1 up
\* to 10^-27, for any two distinct currencies A and B.
C12_Reciprocal ==
    BuiltOfPrices /\ out.returned =>
       \A ab \in Pairs :
          NearOne(Mul(out.ret[ab[1] \o ab[2]], out.ret[ab[2] \o ab[1]]))

\* the call on the prices 100000, 90000 and 80000: EURUSD * USDEUR is not 1,
\* though near it
C12_Witness ==
    /\ BuiltOfPrices /\ out.returned /\ out.args = PRICES
    /\ Mul(out.ret["EURUSD"], out.ret["USDEUR"])
          = DecimalOf("0.9999999999999999999999999999")
    /\ Mul(out.ret["GBPUSD"], out.ret["USDGBP"]) = DecimalOf("1.000")

(***************************************************************************)
(* Further properties of the cache, stated of Spec.                        *)
(***************************************************************************)
\* C13: every raw price and every cross rate in the cache is above zero, in
\* every state, whatever prices the upstream source answers with status 200.
C13_Positive ==
    \A k \in DOMAIN _cache : Positive(_cache[k])

\* no price or rate of zero is in the cache: a price of zero makes a division
\* of _build_cross_rates raise
NoZeroStored ==
    \A k \in DOMAIN _cache : ~IsZero(_cache[k])

\* a table built from prices above zero holds only rates above zero
PositiveFromPositive ==
    (\A k \in RawKeys \cap DOMAIN _cache : Positive(_cache[k])) =>
       \A k \in DOMAIN _cache : Positive(_cache[k])

\* request p takes a step of its own
Moves(p) ==
    pc'[p] # pc[p] \/ sent'[p] # sent[p] \/ fetched'[p] # fetched[p]

\* this step stores the table and the expiry instant of the refresh that ends
\* in it
Replaces ==
    /\ out'.returned /\ ~out'.hit
    /\ _cache' = out'.ret /\ Complete(_cache')
    /\ _cache_expiry' = <<now + CACHE_TTL>>

\* C14: a call of convert that finds the cache valid leaves the table and the
\* expiry instant as they are, whatever it answers; a call of convert that
\* finds it empty or expired leaves them as they are in each of its steps but
\* the one in which its refresh succeeds, which replaces the table as a whole
\* and the expiry instant with it, and it gets that table.
C14_ConvertFrame ==
    [][/\ AnsweredAtOnce /\ out'.handler = "convert" =>
             /\ Fresh /\ out'.hit
             /\ UNCHANGED <<_cache, _cache_expiry>>
       /\ \A p \in Requests :
             Moves(p) /\ (handler[p] = "convert" \/ handler'[p] = "convert") =>
                /\ Starts(p) => ~Fresh
                /\ IF Ends(p) /\ out'.returned
                   THEN /\ Replaces
                        /\ out'.handler = "convert"
                        /\ \A k \in DOMAIN fetched[p] : _cache'[k] = fetched[p][k]
                   ELSE UNCHANGED <<_cache, _cache_expiry>>]_vars

\* convert was answered from a valid cache, which is as the refresh before
\* left it
C14_Witness ==
    /\ out.handler = "convert" /\ out.hit /\ ~IsExc(out.response)
    /\ pair = "EURGBP"
    /\ _cache = out.ret /\ Fresh

\* the step of request p has the effect of _get_rates_cached, stated without
\* the handler that called it
PathEffect(p) ==
    /\ Starts(p) =>
          /\ ~Fresh
          /\ sent'[p] = <<symbols[1]>> /\ fetched'[p] = EmptyDict
          /\ UNCHANGED <<_cache, _cache_expiry, out>>
    /\ pc[p] = "fetch" /\ pc'[p] = "fetch" =>
          /\ sent'[p] = SubSeq(symbols, 1, Len(sent[p]) + 1)
          /\ DOMAIN fetched'[p] = DOMAIN fetched[p] \cup {Awaited(p)}
          /\ UNCHANGED <<_cache, _cache_expiry, out>>
    /\ Ends(p) =>
          /\ out'.sent = sent[p]
          /\ IF out'.returned
             THEN /\ Replaces
                  /\ out'.sent = symbols
                  /\ \A k \in DOMAIN fetched[p] : _cache'[k] = fetched[p][k]
             ELSE UNCHANGED <<_cache, _cache_expiry>>

\* the answer of rates to the table t: t split into the keys that start
\* with BTC and the other keys
Split(response, t) ==
    /\ DOMAIN response = {"binance_prices", "derived_cross_rates"}
    /\ DOMAIN response.binance_prices = {k \in DOMAIN t : startswith(k, "BTC")}
    /\ DOMAIN response.derived_cross_rates = {k \in DOMAIN t : ~startswith(k, "BTC")}
    /\ DOMAIN response.binance_prices \cap DOMAIN response.derived_cross_rates = {}
    /\ DOMAIN response.binance_prices \cup DOMAIN response.derived_cross_rates
          = DOMAIN t
    /\ \A k \in DOMAIN response.binance_prices :
          response.binance_prices[k] = float(t[k])
    /\ \A k \in DOMAIN response.derived_cross_rates :
          response.derived_cross_rates[k] = float(t[k])

\* C15: a call of rates and a call of convert have the same effect on the
\* cache and request the same symbols: whichever handler calls, a call that
\* finds the cache valid requests nothing and changes nothing, and any other
\* call requests the symbols in order and stores the table and the expiry
\* instant when the last price is in (the effect is stated without the
\* handler); rates answers the table _get_rates_cached returned, which is the
\* one in the cache, split into the keys that start with BTC and the other
\* keys, each key in one part only.
C15_SamePath ==
    [][/\ \A p \in Requests : Moves(p) => PathEffect(p)
       /\ AnsweredAtOnce =>
             /\ Fresh /\ out'.hit /\ out'.sent = <<>> /\ out'.ret = _cache
             /\ UNCHANGED <<_cache, _cache_expiry, sent, fetched>>
       /\ out' # out /\ out'.handler = "rates" =>
             IF out'.returned
             THEN /\ out'.ret = _cache'
                  /\ Split(out'.response, out'.ret)
             ELSE out'.response = out'.raised[1]]_vars

\* rates has ended a refresh of its own: it requested the three symbols and
\* answers the table it stored, three prices and six cross rates
C15_Witness ==
    /\ out.handler = "rates" /\ out.returned /\ ~out.hit
    /\ out.sent = symbols
    /\ out.ret = _cache /\ _cache_expiry = <<now + CACHE_TTL>>
    /\ DOMAIN out.response.binance_prices = RawKeys
    /\ DOMAIN out.response.derived_cross_rates = CrossKeys

\* a request is suspended only in _fetch_rates, where it awaits the answer
\* for the symbol it requested last, with the prices of the symbols before
Suspended(p) ==
    /\ sent[p] # <<>>
    /\ sent[p] = SubSeq(symbols, 1, Len(sent[p]))
    /\ DOMAIN fetched[p] = {sent[p][i] : i \in 1..(Len(sent[p]) - 1)}

\* whatever the other requests await, a request that is not in flight can
\* call: it is answered at once if the cache is valid, and starts a refresh
\* of its own if not
NeverBlocked ==
    \A q \in Requests :
       pc[q] = "idle" =>
          \A h \in Handlers :
             IF Valid THEN \A args \in ArgsOf(h) : ENABLED CallValid(q, h, args)
             ELSE ENABLED CallStale(q, h)

\* C16: a request is suspended only at a request to the upstream source; the
\* test of line 56 and the first request are one step, and so are the store
\* of the table and of the expiry instant; while a refresh is in flight, a
\* call that finds the cache valid is answered in one step, and a call that
\* finds it empty or expired starts a refresh of its own, which leaves the
\* one in flight as it is.
C16_NonBlocking ==
    /\ [](\A p \in Requests :
             /\ pc[p] \in {"idle", "fetch"}
             /\ pc[p] = "fetch" => Suspended(p)
             /\ pc[p] = "idle" => sent[p] = <<>> /\ fetched[p] = EmptyDict)
    /\ []NeverBlocked
    /\ [][/\ \A p \in Requests :
                /\ Starts(p) =>
                      /\ ~Fresh
                      /\ sent'[p] = <<symbols[1]>> /\ fetched'[p] = EmptyDict
                      /\ \A q \in Requests \ {p} :
                            /\ pc'[q] = pc[q] /\ sent'[q] = sent[q]
                            /\ fetched'[q] = fetched[q]
                /\ Moves(p) =>
                      \A q \in Requests \ {p} : ~Moves(q)
          /\ AnsweredAtOnce => Fresh /\ out'.hit /\ UNCHANGED <<pc, sent, fetched>>
          /\ (_cache' # _cache \/ _cache_expiry' # _cache_expiry) => Replaces]_vars

\* a request is in flight since before the last store; the last call that
\* ended came after that store and was answered at once from the cache, and
\* the other request has since found the cache expired and is in flight with
\* a refresh of its own, at another symbol
C16_Witness ==
    /\ out.hit /\ out.returned
    /\ \E p \in Requests, q \in Requests :
          /\ pc[p] = "fetch" /\ ~window[p]
          /\ pc[q] = "fetch" /\ window[q]
          /\ Len(sent[p]) # Len(sent[q])

\* C17: every table _get_rates_cached returns holds an entry for each of the
\* six ordered pairs of distinct currencies; so, whatever the two currencies
\* and the quantity, convert on such a table takes the rate 1 or the entry of
\* the pair, never the reciprocal of the reverse entry, and never raises the
\* HTTPException of status 400.
C17_AllDirect ==
    /\ _cache # EmptyDict => CrossKeys \subseteq DOMAIN _cache
    /\ out.returned =>
          /\ {ab[1] \o ab[2] : ab \in Pairs} \subseteq DOMAIN out.ret
          /\ \A args \in Conversions :
                /\ Handled("convert", out.ret, args).rate =
                      <<IF args.ccy_from = args.ccy_to THEN One
                        ELSE out.ret[args.ccy_from \o args.ccy_to]>>
                /\ Handled("convert", out.ret, args).response
                      # HTTPException(400, "Unsupported pair "
                                             \o args.ccy_from \o args.ccy_to)
    /\ out.handler = "convert" =>
          /\ out.returned =>
                out.rate = <<IF out.args.ccy_from = out.args.ccy_to THEN One
                             ELSE out.ret[pair]>>
          /\ IsExc(out.response) => out.response.status_code # 400

\* convert from EUR to GBP has ended a refresh of its own and taken the entry
\* EURGBP of the table it stored, which holds GBPEUR too
C17_Witness ==
    /\ out.handler = "convert" /\ out.returned /\ ~out.hit
    /\ pair = "EURGBP"
    /\ out.rate = <<out.ret["EURGBP"]>>
    /\ "GBPEUR" \in DOMAIN out.ret
    /\ out.rate # <<Div(One, out.ret["GBPEUR"])>>

\* C18: the cache is empty exactly when the expiry instant is unset; the
\* table and the expiry instant change only together, in the step in which a
\* refresh ends with a table: whatever was stored and whichever request
\* stored it, they become the table of that refresh and the time of that
\* step + CACHE_TTL, and every refresh that ends with a table stores both.
C18_SameWriter ==
    /\ [](_cache = EmptyDict <=> _cache_expiry = None)
    /\ [](_cache # EmptyDict =>
             Complete(_cache) /\ _cache_expiry[1] \in {t + CACHE_TTL : t \in 0..now})
    /\ [][/\ (_cache' # _cache \/ _cache_expiry' # _cache_expiry) =>
                /\ \E p \in Requests : Ends(p)
                /\ Replaces
          /\ \A p \in Requests :
                Ends(p) /\ out'.returned => Replaces]_vars

\* a request has stored its table and its expiry instant, after time has
\* passed, while the other request, which began its refresh before that
\* store, is still in flight with other prices
C18_Witness ==
    /\ out.returned /\ ~out.hit /\ _cache = out.ret
    /\ now > 0 /\ _cache_expiry = <<now + CACHE_TTL>>
    /\ \E q \in Requests :
          /\ pc[q] = "fetch" /\ ~window[q] /\ Len(sent[q]) = Len(symbols)
          /\ \E k \in DOMAIN fetched[q] : fetched[q][k] # _cache[k]

====
